---- MODULE Spec2Model ----
(***************************************************************************)
(* The Darwin (kqueue) UDP datapath of MsQuic,                             *)
(* src/platform/datapath_darwin.c, as a state machine.                     *)
(*                                                                         *)
(* Threads: the datapath worker (QuicDataPathWorkerThread), and the user   *)
(* threads that call the datapath API.  The kernel (descriptors, socket    *)
(* receive queues, the kqueue) is part of the state; datagram arrival is   *)
(* an environment step.                                                    *)
(***************************************************************************)
EXTENDS Integers, Sequences, FiniteSets, TLC

\* ------------------------------------------------------------ constants

\* Datapath->ProcCount = 1: one worker, one socket context per binding.
ProcCount == 1

QUIC_MAX_BATCH_SEND == 10

\* A null pointer (CurrentRecvBlock == NULL, msg_name == NULL).
NULL == 0

INVALID_SOCKET_FD == 0 - 1

\* ------------------------------------------------------------ bounds

\* Binding objects the user may create over a run.
NumBindings == 2

\* Receive blocks the recv-block pool can hand out before malloc fails.
NumRecvBlocks == 3

\* Datagrams the network delivers over a run.
MaxDatagrams == 2

\* Size of the process's descriptor table.
MaxFd == 4

\* Send contexts the send-context pool can hand out before malloc fails.
NumSendContexts == 2

\* send_to calls over a run.
MaxSendCalls == 2

BindingIds == 1..NumBindings
RecvBlockIds == 1..NumRecvBlocks
FdIds == 0..(MaxFd - 1)
SendContextIds == 1..NumSendContexts

\* Payload lengths of arriving datagrams: an empty one and a full one.
DatagramLengths == {0, 1200}

\* ------------------------------------------------------------ state

VARIABLES
    \* QUIC_DATAPATH
    DatapathShutdown,     \* Datapath->Shutdown
    BindingsRundown,      \* Datapath->BindingsRundown reference count
    DatapathFreed,        \* QUIC_FREE(Datapath) has run
    Process,              \* "running", or how the process was terminated
    PoolsInitialized,     \* the three pools of ProcContexts[0]
    UninitPc,             \* position of the thread in QuicDataPathUninitialize
    \* worker thread
    WorkerPc,             \* position of QuicDataPathWorkerThread
    evList,               \* the batch kevent returned, events not yet handled
    RecvRet,              \* Ret of the recvmsg the worker just issued
    UseAfterFree,         \* the worker has dereferenced a freed socket context
    \* kernel
    Sockets,              \* fd -> socket object (open, bound, receive queue, knote)
    Kqueue,               \* activated read knotes of KqueueFd, in activation order
    ArrivalCount,         \* datagrams delivered by the network so far
    \* QUIC_DATAPATH_BINDING and its socket context
    Bindings,             \* id -> binding object
    DeletePc,             \* id -> position of the thread in QuicDataPathBindingDelete
    \* receive blocks
    RecvBlocksAllocated,  \* blocks taken from RecvBlockPool and not freed
    UserHeld,             \* blocks handed to RecvHandler and not returned
    RecvBlocks,           \* id -> contents of the QUIC_DATAPATH_RECV_BLOCK
    \* send path
    SendContexts,         \* id -> send context object
    SendBuffersAllocated, \* buffers taken from SendBufferPool and not freed
    SubmitCount,          \* send_to calls made so far
    LastAccepted,         \* <<ticket, index>> of the last buffer the kernel accepted
    \* API
    LastCall              \* the last API call observed, and what it did or returned

datapathVars == <<DatapathShutdown, BindingsRundown, DatapathFreed, Process,
                  PoolsInitialized, UninitPc>>
workerVars == <<WorkerPc, evList, RecvRet, UseAfterFree>>
kernelVars == <<Sockets, Kqueue, ArrivalCount>>
bindingVars == <<Bindings, DeletePc>>
blockVars == <<RecvBlocksAllocated, UserHeld, RecvBlocks>>
sendVars == <<SendContexts, SendBuffersAllocated, SubmitCount, LastAccepted>>

vars == <<datapathVars, workerVars, kernelVars, bindingVars, blockVars, sendVars,
          LastCall>>

\* ------------------------------------------------------------ helpers

Min(S) == CHOOSE x \in S : \A y \in S : x <= y

\* Removes every occurrence of x from sequence s.
RECURSIVE SeqWithout(_, _)
SeqWithout(s, x) ==
    IF s = <<>> THEN <<>>
    ELSE IF Head(s) = x THEN SeqWithout(Tail(s), x)
    ELSE <<Head(s)>> \o SeqWithout(Tail(s), x)

InSeq(s, x) == \E i \in 1..Len(s) : s[i] = x

RECURSIVE SumLen(_)
SumLen(q) == IF q = <<>> THEN 0 ELSE Head(q).len + SumLen(Tail(q))

\* ------------------------------------------------------------ rundown

\* QuicRundownInitialize: the count starts at one (the owner's reference).
RundownInitialize == 1

\* QuicRundownAcquire
RundownAcquire(r) == r + 1

\* QuicRundownRelease
RundownRelease(r) == r - 1

\* QuicRundownReleaseAndWait returns once the count has reached zero.
RundownDrained(r) == r = 0

\* ------------------------------------------------------------ kernel

\* A socket address, reduced to its family and port.  ZeroAddress is the
\* all-zero QUIC_ADDR that QuicZeroMemory leaves.
ZeroAddress == [family |-> "AF_UNSPEC", port |-> 0]

Ipv4Address(port) == [family |-> "AF_INET", port |-> port]

\* The local ports a caller of QuicDataPathBindingCreate asks for: any port
\* (0, which also stands for a NULL LocalAddress) or a port of its choice.
LocalPorts == {0, 4433}

\* The remote address a caller of QuicDataPathBindingCreate supplies.
PeerAddress == Ipv4Address(443)

\* The port the kernel picks for descriptor fd when bind() asks for port 0.
EphemeralPort(fd) == 49152 + fd

\* name is the address getsockname reports, peer the address the socket was
\* connect()-ed to.
ClosedSocket ==
    [open |-> FALSE, bound |-> FALSE, queue |-> <<>>, knote |-> NULL,
     name |-> ZeroAddress, peer |-> ZeroAddress]

\* socket(AF_INET, SOCK_DGRAM, 0), line 838: the family the caller's addresses
\* have is not used.
NewSocket ==
    [open |-> TRUE, bound |-> FALSE, queue |-> <<>>, knote |-> NULL,
     name |-> Ipv4Address(0), peer |-> ZeroAddress]

FreeFds(socks) == {f \in FdIds : ~socks[f].open}

\* socket(): the lowest unused descriptor, or INVALID_SOCKET_FD (EMFILE).
SocketCall(socks) ==
    IF FreeFds(socks) = {} THEN INVALID_SOCKET_FD ELSE Min(FreeFds(socks))

OpenFd(socks, fd) ==
    IF fd = INVALID_SOCKET_FD THEN socks ELSE [socks EXCEPT ![fd] = NewSocket]

\* close(fd): the descriptor is released, queued datagrams are discarded and
\* the knote is removed from the kqueue.  close(-1) fails with EBADF.
CloseFd(socks, fd) ==
    IF fd = INVALID_SOCKET_FD THEN socks ELSE [socks EXCEPT ![fd] = ClosedSocket]

CloseKnote(kq, fd) == SeqWithout(kq, fd)

\* bind(fd, addr): the socket takes the port of addr, or a port of the
\* kernel's choice when that port is 0 (lines 920-924).
Bind(socks, fd, addr) ==
    [socks EXCEPT ![fd].bound = TRUE,
                  ![fd].name = Ipv4Address(IF addr.port = 0
                                           THEN EphemeralPort(fd)
                                           ELSE addr.port)]

\* connect(fd, addr) when a remote address was supplied (lines 941-953).
Connect(socks, fd, addr) ==
    IF addr = ZeroAddress THEN socks ELSE [socks EXCEPT ![fd].peer = addr]

\* getsockname without effect: the address is left as the caller had it.
GetsocknameKeepsAddress(socks, fd, addr) == addr

\* getsockname(fd, &Binding->LocalAddress, ...) overwrites the binding's
\* local address with the socket's (lines 973-978).
Getsockname(socks, fd, addr) == socks[fd].name

\* The process has not been terminated by a trap, a failed assertion or a fault.
Running == Process = "running"

\* ------------------------------------------------------------ pools

\* QuicPoolAlloc(&RecvBlockPool): a block not in use, NULL when malloc fails.
\* ok = FALSE is the allocator refusing although memory is left.
QuicDataPathAllocRecvBlock(allocated, ok) ==
    IF ok /\ RecvBlockIds \ allocated # {}
    THEN Min(RecvBlockIds \ allocated)
    ELSE NULL

\* &Datapath->ProcContexts[ProcIndex].RecvBlockPool
RecvBlockPool(ProcIndex) == ProcIndex + 1

\* SocketContext->RecvIov.iov_len (lines 1155-1156): QUIC_MAX_MTU less the
\* IPv4 and UDP headers.
RecvIovLen == 1472

\* A receive block lying in the pool.  Next, BufferLength and PartitionIndex
\* are the fields of RecvPacket, LocalAddress and RemoteAddress those of Tuple.
BlankBlock ==
    [OwningPool |-> NULL, Next |-> NULL, BufferLength |-> 0, PartitionIndex |-> 0,
     LocalAddress |-> ZeroAddress, RemoteAddress |-> ZeroAddress]

\* The block QuicDataPathAllocRecvBlock returns (lines 1018-1021): zeroed, with
\* OwningPool pointing to the pool it was taken from.
AllocatedRecvBlock(ProcIndex) ==
    [BlankBlock EXCEPT !.OwningPool = RecvBlockPool(ProcIndex)]

\* QuicSocketContextPrepareReceive on the block (lines 1047-1049).
PreparedBlock(block) == [block EXCEPT !.BufferLength = RecvIovLen]

\* QuicPoolFree(pool, blk): the block goes back to the pool named; allocated
\* is the set of blocks out of ProcContexts[0].RecvBlockPool.
QuicPoolFree(pool, blk, allocated) ==
    IF pool = RecvBlockPool(0) THEN allocated \ {blk} ELSE allocated

\* ------------------------------------------------------------ initial state

\* A binding object that was never allocated (or whose allocation failed).
\* Connected and SendWaiting are declared (lines 209, 147) and zeroed with the
\* binding; no statement of the file assigns them.
\* PendingSendContextHead is the socket context's list of send contexts waiting
\* for the socket to become writable: QuicListInitializeHead (line 1157) empties
\* it and nothing else in the file writes it.
NoBinding ==
    [Alloc |-> "none", Shutdown |-> FALSE, Rundown |-> 0, Connected |-> FALSE,
     ClientContext |-> NULL, LocalAddress |-> ZeroAddress,
     RemoteAddress |-> ZeroAddress,
     SocketFd |-> INVALID_SOCKET_FD, CurrentRecvBlock |-> NULL,
     RecvMsgHdr |-> NULL, RecvMsgControl |-> <<>>, SendWaiting |-> FALSE,
     PendingSendContextHead |-> <<>>]

\* A send context in the pool.  Alloc is "free" (in SendContextPool), "user"
\* (handed out by QuicDataPathBindingAllocSendContext) or "deferred" (a send
\* on it hit EAGAIN and returned without freeing it).  Ticket numbers the
\* send_to calls in call order.
NoSendContext ==
    [Alloc |-> "free", BufferCount |-> 0, CurrentIndex |-> 0, Pending |-> FALSE,
     Ticket |-> 0]

\* The state QuicDataPathInitialize leaves: one worker started, no binding.
InitDatapath ==
    /\ DatapathShutdown = FALSE
    /\ BindingsRundown = RundownInitialize
    /\ DatapathFreed = FALSE
    /\ Process = "running"
    /\ PoolsInitialized = TRUE
    /\ UninitPc = "idle"

InitWorker ==
    /\ WorkerPc = "check"
    /\ evList = <<>>
    /\ RecvRet = 0
    /\ UseAfterFree = FALSE

InitSend ==
    /\ SendContexts = [c \in SendContextIds |-> NoSendContext]
    /\ SendBuffersAllocated = 0
    /\ SubmitCount = 0
    /\ LastAccepted = <<0, 0>>

Init ==
    /\ InitDatapath
    /\ InitWorker
    /\ Sockets = [f \in FdIds |-> ClosedSocket]
    /\ Kqueue = <<>>
    /\ ArrivalCount = 0
    /\ Bindings = [b \in BindingIds |-> NoBinding]
    /\ DeletePc = [b \in BindingIds |-> "idle"]
    /\ LastCall = [Op |-> "none"]
    /\ RecvBlocksAllocated = {}
    /\ UserHeld = {}
    /\ RecvBlocks = [blk \in RecvBlockIds |-> BlankBlock]
    /\ InitSend

\* ------------------------------------------------------------ datapath init

\* The state before QuicDataPathInitialize has succeeded: no datapath object,
\* no pools, no worker thread, and no handle the user could pass to a call.
NoDatapath ==
    /\ DatapathShutdown = FALSE
    /\ BindingsRundown = 0
    /\ DatapathFreed = FALSE
    /\ Process = "running"
    /\ PoolsInitialized = FALSE
    /\ UninitPc = "none"
    /\ WorkerPc = "none"
    /\ evList = <<>>
    /\ RecvRet = 0
    /\ UseAfterFree = FALSE

\* What QuicDataPathInitialize was called with, what it returned, and whether
\* it wrote *NewDataPath.
InitResult(args, status, written) ==
    [Op |-> "DataPathInitialize", Args |-> args, Status |-> status,
     NewDataPath |-> written]

\* The parameter test without the unreachable callback.
ParametersValidWithoutUnreachable(recv, unreach, out) == recv /\ out

\* The parameter test of lines 572-576: both callbacks and the output pointer
\* are not NULL.
ParametersValid(recv, unreach, out) == recv /\ unreach /\ out

\* QuicDataPathInitialize.  recv, unreach and out tell whether RecvCallback,
\* UnreachableCallback and NewDataPath are non-NULL; alloc, kq and thread
\* whether QUIC_ALLOC_PAGED, kqueue() and QuicThreadCreate succeed.
\* QuicProcessorContextInitialize initializes the three pools first and
\* uninitializes them again when kqueue() or QuicThreadCreate fails; the
\* datapath is then marked shut down and freed (lines 605-618).
QuicDataPathInitialize(recv, unreach, out, alloc, kq, thread) ==
    /\ Running
    /\ UninitPc = "none"
    /\ LET args == [RecvCallback |-> recv, UnreachableCallback |-> unreach,
                    NewDataPath |-> out, Alloc |-> alloc, Kqueue |-> kq,
                    Thread |-> thread]
       IN
       IF ~ParametersValid(recv, unreach, out) THEN
            /\ LastCall' = InitResult(args, "QUIC_STATUS_INVALID_PARAMETER", FALSE)
            /\ UNCHANGED <<datapathVars, WorkerPc>>
       ELSE IF ~alloc THEN
            /\ LastCall' = InitResult(args, "QUIC_STATUS_OUT_OF_MEMORY", FALSE)
            /\ UNCHANGED <<datapathVars, WorkerPc>>
       ELSE IF ~kq \/ ~thread THEN
            /\ LastCall' = InitResult(args,
                                      IF ~kq THEN "errno" ELSE "QuicThreadCreate",
                                      FALSE)
            /\ DatapathShutdown' = TRUE
            /\ DatapathFreed' = TRUE
            /\ PoolsInitialized' = FALSE
            /\ UNCHANGED <<BindingsRundown, Process, UninitPc, WorkerPc>>
       ELSE
            /\ LastCall' = InitResult(args, "QUIC_STATUS_SUCCESS", TRUE)
            /\ DatapathShutdown' = FALSE
            /\ BindingsRundown' = RundownInitialize
            /\ DatapathFreed' = FALSE
            /\ PoolsInitialized' = TRUE
            /\ UninitPc' = "idle"
            /\ WorkerPc' = "check"
            /\ UNCHANGED Process
    /\ UNCHANGED <<evList, RecvRet, UseAfterFree, kernelVars, bindingVars,
                   blockVars, sendVars>>

\* ------------------------------------------------------------ binding create

\* What QuicDataPathBindingCreate was called with (the port of LocalAddress,
\* whether RemoteAddress was supplied), what it returned and what it left in
\* *NewBinding.
CreateResult(args, status, new) ==
    [Op |-> "BindingCreate", Args |-> args, Status |-> status, NewBinding |-> new]

\* The points at which QuicDataPathBindingCreate can fail.
CreateFailures == {"none", "alloc", "init", "connect", "prepare", "kevent"}

\* The RecvCallbackContext the caller passes for binding b.
RecvCallbackContext(b) == 100 + b

\* Binding->LocalAddress as lines 1142-1151 leave it.  The copy of the caller's
\* LocalAddress is commented out (line 1148), so the field keeps the zeroes of
\* QuicZeroMemory; for a NULL LocalAddress line 1150 writes the family only.
\* The port is 0 either way.
InitialLocalAddress(local) == ZeroAddress

\* The binding object as lines 1142-1159 leave it.  Connected is zeroed with
\* the rest of the binding and written nowhere in the file.
FreshBinding(b, local) ==
    [NoBinding EXCEPT !.Alloc = "live",
                      !.ClientContext = RecvCallbackContext(b),
                      !.LocalAddress = InitialLocalAddress(local),
                      !.Rundown = RundownAcquire(RundownInitialize)]

\* QuicDataPathBindingCreate with ProcCount = 1, as one step of the caller.
\* local is the port of LocalAddress, remote tells whether RemoteAddress is
\* supplied, dbg whether the build keeps QUIC_DBG_ASSERT.
\* QuicSocketContextInitialize calls socket() twice and keeps the second
\* descriptor; the first stays open and is referenced by nothing.
QuicDataPathBindingCreate(b, local, remote, fail, dbg) ==
    /\ Running
    /\ UninitPc = "idle"
    /\ Bindings[b].Alloc = "none"
    /\ \A x \in BindingIds : Bindings[x].Alloc = "none" => b <= x
    /\ fail = "connect" => remote
    /\ LET args == [LocalPort |-> local, Remote |-> remote]
           fd1 == SocketCall(Sockets)
           s1 == OpenFd(Sockets, fd1)
           fd2 == SocketCall(s1)
           s2 == OpenFd(s1, fd2)
           fresh == FreshBinding(b, local)
           s3 == Bind(s2, fd2, fresh.LocalAddress)
           s4 == Connect(s3, fd2, IF remote THEN PeerAddress ELSE ZeroAddress)
           assigned == Getsockname(s4, fd2, fresh.LocalAddress)
           blk == QuicDataPathAllocRecvBlock(RecvBlocksAllocated, fail # "prepare")
       IN
       IF fail = "alloc" THEN
            \* QUIC_ALLOC_PAGED failed: nothing was touched.
            /\ LastCall' = CreateResult(args, "QUIC_STATUS_OUT_OF_MEMORY", NULL)
            /\ UNCHANGED <<Bindings, DeletePc, datapathVars, kernelVars, blockVars>>
       ELSE IF fd2 = INVALID_SOCKET_FD \/ fail = "connect" THEN
            \* int3 after a failed socket() or connect()
            /\ Process' = "trap"
            /\ Sockets' = s2
            /\ UNCHANGED <<DatapathShutdown, BindingsRundown, DatapathFreed,
                           PoolsInitialized, UninitPc, Kqueue, ArrivalCount,
                           bindingVars, blockVars, LastCall>>
       ELSE IF fail = "init" THEN
            \* setsockopt, bind or getsockname failed: the socket is closed,
            \* the bindings rundown reference released, the binding freed.
            /\ Sockets' = CloseFd(s2, fd2)
            /\ LastCall' = CreateResult(args, "errno", NULL)
            /\ BindingsRundown' = RundownRelease(RundownAcquire(BindingsRundown))
            /\ UNCHANGED <<Bindings, DeletePc, DatapathShutdown, DatapathFreed,
                           Process, PoolsInitialized, UninitPc, Kqueue,
                           ArrivalCount, blockVars>>
       ELSE IF dbg /\ local # 0 /\ local # assigned.port THEN
            \* QUIC_DBG_ASSERT of line 991 fails.
            /\ Process' = "assert"
            /\ Sockets' = s4
            /\ UNCHANGED <<DatapathShutdown, BindingsRundown, DatapathFreed,
                           PoolsInitialized, UninitPc, Kqueue, ArrivalCount,
                           bindingVars, blockVars, LastCall>>
       ELSE IF blk = NULL THEN
            \* QuicSocketContextPrepareReceive failed; *NewBinding is already set.
            /\ Sockets' = CloseFd(s2, fd2)
            /\ LastCall' = CreateResult(args, "QUIC_STATUS_OUT_OF_MEMORY", b)
            /\ BindingsRundown' = RundownRelease(RundownAcquire(BindingsRundown))
            /\ UNCHANGED <<Bindings, DeletePc, DatapathShutdown, DatapathFreed,
                           Process, PoolsInitialized, UninitPc, Kqueue,
                           ArrivalCount, blockVars>>
       ELSE IF fail = "kevent" THEN
            \* kevent(EV_ADD) failed after the receive block was armed: the
            \* socket is closed and the binding freed with the block still
            \* attached to its socket context.
            /\ Sockets' = CloseFd(s2, fd2)
            /\ RecvBlocksAllocated' = RecvBlocksAllocated \cup {blk}
            /\ RecvBlocks' = [RecvBlocks EXCEPT ![blk] =
                   PreparedBlock(AllocatedRecvBlock(0))]
            /\ LastCall' = CreateResult(args, "QUIC_STATUS_INTERNAL_ERROR", b)
            /\ BindingsRundown' = RundownRelease(RundownAcquire(BindingsRundown))
            /\ UNCHANGED <<Bindings, DeletePc, DatapathShutdown, DatapathFreed,
                           Process, PoolsInitialized, UninitPc, Kqueue,
                           ArrivalCount, UserHeld>>
       ELSE
            /\ Sockets' = [s4 EXCEPT ![fd2].knote = b]
            /\ RecvBlocksAllocated' = RecvBlocksAllocated \cup {blk}
            /\ RecvBlocks' = [RecvBlocks EXCEPT ![blk] =
                   PreparedBlock(AllocatedRecvBlock(0))]
            /\ Bindings' = [Bindings EXCEPT ![b] =
                   [fresh EXCEPT !.LocalAddress = assigned,
                                 !.RemoteAddress =
                                     IF remote THEN PeerAddress ELSE ZeroAddress,
                                 !.SocketFd = fd2,
                                 !.CurrentRecvBlock = blk,
                                 !.RecvMsgHdr = blk]]
            /\ LastCall' = CreateResult(args, "QUIC_STATUS_SUCCESS", b)
            /\ BindingsRundown' = RundownAcquire(BindingsRundown)
            /\ UNCHANGED <<DeletePc, DatapathShutdown, DatapathFreed, Process,
                           PoolsInitialized, UninitPc, Kqueue, ArrivalCount,
                           UserHeld>>
    /\ UNCHANGED <<workerVars, sendVars>>

\* QuicDataPathBindingGetLocalAddress: *Address = Binding->LocalAddress.
QuicDataPathBindingGetLocalAddress(b) == Bindings[b].LocalAddress

\* QuicDataPathBindingGetRemoteAddress: *Address = Binding->RemoteAddress.
QuicDataPathBindingGetRemoteAddress(b) == Bindings[b].RemoteAddress

\* ------------------------------------------------------------ binding delete

\* A QuicSocketContextUninitialize that also detaches the armed receive block
\* from the socket context on the thread of the caller.
BindingDeleteCloseDetaches(b) ==
    /\ Running
    /\ Bindings[b].Alloc = "live"
    /\ DeletePc[b] = "idle"
    /\ Bindings' = [Bindings EXCEPT
           ![b].Shutdown = TRUE,
           ![b].CurrentRecvBlock = NULL,
           ![b].Rundown = RundownRelease(RundownRelease(Bindings[b].Rundown))]
    /\ Sockets' = CloseFd(Sockets, Bindings[b].SocketFd)
    /\ Kqueue' = CloseKnote(Kqueue, Bindings[b].SocketFd)
    /\ DeletePc' = [DeletePc EXCEPT ![b] = "wait"]
    /\ UNCHANGED <<ArrivalCount, datapathVars, workerVars, blockVars,
                   sendVars, LastCall>>

\* Lines 1252-1259 up to the wait: Shutdown is set, the socket is closed
\* (QuicSocketContextUninitialize; the EV_DELETE is commented out, close()
\* removes the knote), the socket context's rundown reference and then the
\* initial one are released.
BindingDeleteClose(b) ==
    /\ Running
    /\ Bindings[b].Alloc = "live"
    /\ DeletePc[b] = "idle"
    /\ Bindings' = [Bindings EXCEPT
           ![b].Shutdown = TRUE,
           ![b].Rundown = RundownRelease(RundownRelease(Bindings[b].Rundown))]
    /\ Sockets' = CloseFd(Sockets, Bindings[b].SocketFd)
    /\ Kqueue' = CloseKnote(Kqueue, Bindings[b].SocketFd)
    /\ DeletePc' = [DeletePc EXCEPT ![b] = "wait"]
    /\ UNCHANGED <<ArrivalCount, datapathVars, workerVars, blockVars,
                   sendVars, LastCall>>

\* QuicDataPathBindingDelete with the release of line 1260 left out.
BindingDeleteWaitNoRelease(b) ==
    /\ Running
    /\ DeletePc[b] = "wait"
    /\ RundownDrained(Bindings[b].Rundown)
    /\ DeletePc' = [DeletePc EXCEPT ![b] = "released"]
    /\ UNCHANGED <<datapathVars, Bindings, workerVars, kernelVars,
                   blockVars, sendVars, LastCall>>

\* QuicRundownReleaseAndWait(&Binding->Rundown) returns; line 1260 releases the
\* binding's reference on the datapath's bindings rundown.
BindingDeleteWait(b) ==
    /\ Running
    /\ DeletePc[b] = "wait"
    /\ RundownDrained(Bindings[b].Rundown)
    /\ BindingsRundown' = RundownRelease(BindingsRundown)
    /\ DeletePc' = [DeletePc EXCEPT ![b] = "released"]
    /\ UNCHANGED <<DatapathShutdown, DatapathFreed, Process, PoolsInitialized,
                   UninitPc, Bindings, workerVars, kernelVars,
                   blockVars, sendVars, LastCall>>

\* Lines 1262-1263: the binding (with its socket context) is freed and
\* QuicDataPathBindingDelete returns.
BindingDeleteFree(b) ==
    /\ Running
    /\ DeletePc[b] = "released"
    /\ Bindings' = [Bindings EXCEPT ![b].Alloc = "freed"]
    /\ DeletePc' = [DeletePc EXCEPT ![b] = "done"]
    /\ UNCHANGED <<datapathVars, workerVars, kernelVars, blockVars,
                   sendVars, LastCall>>

\* ------------------------------------------------------------ datapath uninit

\* QuicDataPathUninitialize is entered: QuicRundownReleaseAndWait gives up the
\* initial bindings rundown reference and starts to wait (line 652).
UninitRelease ==
    /\ Running
    /\ UninitPc = "idle"
    /\ BindingsRundown' = RundownRelease(BindingsRundown)
    /\ UninitPc' = "wait"
    /\ UNCHANGED <<DatapathShutdown, DatapathFreed, Process, PoolsInitialized,
                   workerVars, kernelVars, bindingVars, blockVars, sendVars, LastCall>>

\* QuicDataPathUninitialize with the wait on the bindings rundown left out.
UninitSetShutdownWithoutWait ==
    /\ Running
    /\ UninitPc = "wait"
    /\ DatapathShutdown' = TRUE
    /\ UninitPc' = "join"
    /\ UNCHANGED <<BindingsRundown, DatapathFreed, Process, PoolsInitialized,
                   workerVars, kernelVars, bindingVars, blockVars, sendVars,
                   LastCall>>

\* The bindings rundown has drained; line 654 sets the shutdown flag and
\* QuicProcessorContextUninitialize starts to wait for the worker thread.
\* Nothing is posted to the kqueue.
UninitSetShutdown ==
    /\ Running
    /\ UninitPc = "wait"
    /\ RundownDrained(BindingsRundown)
    /\ DatapathShutdown' = TRUE
    /\ UninitPc' = "join"
    /\ UNCHANGED <<BindingsRundown, DatapathFreed, Process, PoolsInitialized,
                   workerVars, kernelVars, bindingVars, blockVars, sendVars, LastCall>>

\* QuicThreadWait returns (lines 629-636): the kqueue is closed, the pools are
\* uninitialized, then the datapath is freed (lines 659-660) and
\* QuicDataPathUninitialize returns.
UninitJoin ==
    /\ Running
    /\ UninitPc = "join"
    /\ WorkerPc = "exited"
    /\ PoolsInitialized' = FALSE
    /\ DatapathFreed' = TRUE
    /\ UninitPc' = "done"
    /\ UNCHANGED <<DatapathShutdown, BindingsRundown, Process, workerVars,
                   kernelVars, bindingVars, blockVars, sendVars, LastCall>>

\* ------------------------------------------------------------ network

\* A datagram of length len arrives on the bound socket fd.  The read knote is
\* EV_CLEAR (edge triggered): it is activated by the arrival.
Arrive(fd, len) ==
    /\ Running
    /\ ArrivalCount < MaxDatagrams
    /\ Sockets[fd].open
    /\ Sockets[fd].bound
    /\ ArrivalCount' = ArrivalCount + 1
    /\ Sockets' = [Sockets EXCEPT ![fd].queue =
                       Append(@, [id |-> ArrivalCount + 1, len |-> len])]
    /\ Kqueue' = IF Sockets[fd].knote # NULL /\ ~InSeq(Kqueue, fd)
                 THEN Append(Kqueue, fd)
                 ELSE Kqueue
    /\ UNCHANGED <<datapathVars, workerVars, bindingVars, blockVars, sendVars, LastCall>>

\* ------------------------------------------------------------ worker thread

\* while (!ProcContext->Datapath->Shutdown), line 451.
WorkerLoopCheck ==
    /\ Running
    /\ WorkerPc = "check"
    /\ WorkerPc' = IF DatapathShutdown THEN "exited" ELSE "kevent"
    /\ UNCHANGED <<evList, RecvRet, UseAfterFree, datapathVars, kernelVars,
                   bindingVars, blockVars, sendVars, LastCall>>

\* The event kevent reports for an activated knote: udata is the socket
\* context, data the bytes waiting in the socket's receive queue.
KeventOf(fd) == [udata |-> Sockets[fd].knote, data |-> SumLen(Sockets[fd].queue)]

\* kevent(Kqueue, NULL, 0, evList, 32, NULL) blocks without a timeout until a
\* knote is active, returns all of them and clears them (line 452).
WorkerKevent ==
    /\ Running
    /\ WorkerPc = "kevent"
    /\ Kqueue # <<>>
    /\ evList' = [i \in 1..Len(Kqueue) |-> KeventOf(Kqueue[i])]
    /\ Kqueue' = <<>>
    /\ WorkerPc' = "event"
    /\ UNCHANGED <<RecvRet, UseAfterFree, Sockets, ArrivalCount, datapathVars,
                   bindingVars, blockVars, sendVars, LastCall>>

\* kevent fails (EINTR): nev < 1 and the worker executes int3 (line 453).
WorkerKeventFail ==
    /\ Running
    /\ WorkerPc = "kevent"
    /\ Process' = "trap"
    /\ UNCHANGED <<DatapathShutdown, BindingsRundown, DatapathFreed,
                   PoolsInitialized, UninitPc, workerVars, kernelVars,
                   bindingVars, blockVars, sendVars, LastCall>>

\* The for loop over evList has handled every event of the batch.
WorkerBatchDone ==
    /\ Running
    /\ WorkerPc = "event"
    /\ evList = <<>>
    /\ WorkerPc' = "check"
    /\ UNCHANGED <<evList, RecvRet, UseAfterFree, datapathVars, kernelVars,
                   bindingVars, blockVars, sendVars, LastCall>>

\* if (evList[i].data == 0) continue; (line 464)
WorkerSkipEmpty ==
    /\ Running
    /\ WorkerPc = "event"
    /\ evList # <<>>
    /\ Head(evList).data = 0
    /\ evList' = Tail(evList)
    /\ UNCHANGED <<WorkerPc, RecvRet, UseAfterFree, datapathVars, kernelVars,
                   bindingVars, blockVars, sendVars, LastCall>>

\* The socket context the current event's udata points to.
CurrentSc == Head(evList).udata

\* A recvmsg that returns the length of the datagram whatever the buffer holds.
RecvmsgReturnsDatagramLength(len, iovlen) == len

\* What recvmsg (line 467) returns for a datagram of len bytes received into
\* an I/O vector of iovlen bytes: the bytes stored; the rest of a longer
\* datagram is discarded.
RecvmsgReturn(len, iovlen) == IF len > iovlen THEN iovlen ELSE len

\* The worker reads through a pointer to a socket context that was freed.
Dangling == Bindings[CurrentSc].Alloc = "freed"

\* The source address of arriving datagram id.
SenderOf(id) == Ipv4Address(5000 + id)

\* The ancillary data recvmsg can leave in RecvMsgControl, as the sequence of
\* the records' types: a record that is no packet info, alone (the
\* setsockopt(IP_PKTINFO) of line 867 failed, which is only logged) or
\* followed by the packet info.
ControlMessages == {<<"IP_RECVDSTADDR">>, <<"IP_RECVDSTADDR", "IP_PKTINFO">>}

\* The loop of lines 376-403: the position of the first IPV6_PKTINFO or
\* IP_PKTINFO record at or after position i, 0 when CMSG_NXTHDR runs out.
RECURSIVE FirstPktInfo(_, _)
FirstPktInfo(control, i) ==
    IF i > Len(control) THEN 0
    ELSE IF control[i] \in {"IPV6_PKTINFO", "IP_PKTINFO"} THEN i
    ELSE FirstPktInfo(control, i + 1)

\* A receive completion that takes the local address without a record.
FoundLocalAddrAlways(control) == TRUE

\* FoundLocalAddr after the loop.
FoundLocalAddr(control) == FirstPktInfo(control, 1) # 0

\* recvmsg(SocketContext->SocketFd, &SocketContext->RecvMsgHdr, 0) takes the
\* first queued datagram (lines 465-469), writes its source address through
\* msg_name into the block the header points to and its ancillary data into
\* RecvMsgControl.  The descriptor number is whatever the socket context's
\* memory holds; the socket is blocking, so the call waits while the
\* descriptor is open and nothing is queued.
WorkerRecvmsg(control) ==
    /\ Running
    /\ WorkerPc = "event"
    /\ evList # <<>>
    /\ Head(evList).data # 0
    /\ LET fd == Bindings[CurrentSc].SocketFd IN
       /\ Sockets[fd].open
       /\ Sockets[fd].queue # <<>>
       /\ RecvRet' = RecvmsgReturn(Head(Sockets[fd].queue).len, RecvIovLen)
       /\ RecvBlocks' = [RecvBlocks EXCEPT
              ![Bindings[CurrentSc].RecvMsgHdr].RemoteAddress =
                  SenderOf(Head(Sockets[fd].queue).id)]
       /\ Sockets' = [Sockets EXCEPT ![fd].queue = Tail(@)]
    /\ Bindings' = [Bindings EXCEPT ![CurrentSc].RecvMsgControl = control]
    /\ WorkerPc' = "recvd"
    /\ UseAfterFree' = (UseAfterFree \/ Dangling)
    /\ UNCHANGED <<evList, Kqueue, ArrivalCount, datapathVars, DeletePc,
                   RecvBlocksAllocated, UserHeld, sendVars, LastCall>>

\* A failed recvmsg that is treated as a receive of no bytes.
WorkerRecvmsgFailCompletes ==
    /\ Running
    /\ WorkerPc = "event"
    /\ evList # <<>>
    /\ Head(evList).data # 0
    /\ RecvRet' = 0 - 1
    /\ WorkerPc' = "recvd"
    /\ UseAfterFree' = (UseAfterFree \/ Dangling)
    /\ UNCHANGED <<evList, datapathVars, kernelVars, bindingVars, blockVars,
                   sendVars, LastCall>>

\* recvmsg returns -1: EBADF on a closed descriptor, EINTR on an open one.
\* The event is dropped (line 468).
WorkerRecvmsgFail ==
    /\ Running
    /\ WorkerPc = "event"
    /\ evList # <<>>
    /\ Head(evList).data # 0
    /\ RecvRet' = 0 - 1
    /\ evList' = Tail(evList)
    /\ UseAfterFree' = (UseAfterFree \/ Dangling)
    /\ UNCHANGED <<WorkerPc, datapathVars, kernelVars, bindingVars, blockVars,
                   sendVars, LastCall>>

\* Reading freed memory may also fault.
WorkerFault ==
    /\ Running
    /\ WorkerPc \in {"event", "recvd", "callback"}
    /\ evList # <<>>
    /\ Head(evList).data # 0
    /\ Dangling
    /\ Process' = "fault"
    /\ UseAfterFree' = TRUE
    /\ UNCHANGED <<DatapathShutdown, BindingsRundown, DatapathFreed,
                   PoolsInitialized, UninitPc, WorkerPc, evList, RecvRet,
                   kernelVars, bindingVars, blockVars, sendVars, LastCall>>

\* The upcall Datapath->RecvHandler(Binding, ClientContext, RecvPacket) of
\* lines 424-427; datagram is the block holding RecvPacket.
RecvHandlerCall(binding, context, datagram) ==
    [Op |-> "RecvHandler", Binding |-> binding, ClientContext |-> context,
     Datagram |-> datagram]

\* The local address lines 381-402 write from the record at position i of
\* the control buffer: the record's family and the binding's local port.
\* With no record (i = 0) the loop writes nothing.
LocalAddrFrom(block, control, i, binding) ==
    IF i = 0 THEN block.LocalAddress
    ELSE [family |-> IF control[i] = "IPV6_PKTINFO" THEN "AF_INET6" ELSE "AF_INET",
          port |-> binding.LocalAddress.port]

\* A stamping that leaves BufferLength at the size of the receive buffer.
StampedBlockKeepsLength(block, control, binding, BytesTransferred, Index) ==
    [block EXCEPT
        !.LocalAddress =
            LocalAddrFrom(block, control, FirstPktInfo(control, 1), binding),
        !.PartitionIndex = Index]

\* The datagram as lines 381-421 stamp it: the local address from the first
\* packet-info record, BufferLength the byte count of the recvmsg,
\* PartitionIndex ProcContext->Index.
StampedBlock(block, control, binding, BytesTransferred, Index) ==
    [block EXCEPT
        !.LocalAddress =
            LocalAddrFrom(block, control, FirstPktInfo(control, 1), binding),
        !.BufferLength = BytesTransferred,
        !.PartitionIndex = Index]

\* QuicSocketContextRecvComplete up to the upcall (lines 364-427): the armed
\* block is detached from the socket context, stamped and passed to
\* RecvHandler.  Without an armed block the completion dereferences NULL;
\* without a packet-info record QUIC_FRE_ASSERT(FoundLocalAddr) fails before
\* the upcall.
WorkerRecvComplete ==
    /\ Running
    /\ WorkerPc = "recvd"
    /\ LET sc == Bindings[CurrentSc]
           blk == sc.CurrentRecvBlock
       IN
       IF blk = NULL THEN
            /\ Process' = "fault"
            /\ UNCHANGED <<WorkerPc, Bindings, blockVars, LastCall>>
       ELSE IF ~FoundLocalAddr(sc.RecvMsgControl) THEN
            /\ Process' = "assert"
            /\ Bindings' = [Bindings EXCEPT ![CurrentSc].CurrentRecvBlock = NULL]
            /\ UNCHANGED <<WorkerPc, blockVars, LastCall>>
       ELSE
            /\ Bindings' = [Bindings EXCEPT ![CurrentSc].CurrentRecvBlock = NULL]
            /\ RecvBlocks' = [RecvBlocks EXCEPT ![blk] =
                   StampedBlock(@, sc.RecvMsgControl, sc, RecvRet, 0)]
            /\ UserHeld' = UserHeld \cup {blk}
            /\ LastCall' = RecvHandlerCall(CurrentSc, sc.ClientContext, blk)
            /\ WorkerPc' = "callback"
            /\ UNCHANGED <<Process, RecvBlocksAllocated>>
    /\ UseAfterFree' = (UseAfterFree \/ Dangling)
    /\ UNCHANGED <<evList, RecvRet, DeletePc, DatapathShutdown, BindingsRundown,
                   DatapathFreed, PoolsInitialized, UninitPc, kernelVars,
                   sendVars>>

\* QuicSocketContextPrepareReceive (lines 1032-1060) on socket context sc: the
\* block is armed, the receive header points into it and the control buffer
\* is zeroed.
QuicSocketContextPrepareReceive(sc, blk) ==
    [Bindings EXCEPT ![sc].CurrentRecvBlock = blk, ![sc].RecvMsgHdr = blk,
                     ![sc].RecvMsgControl = <<>>]

\* A re-arm that carries on without a block when the allocation fails.
RearmFailureContinues(blk) == FALSE

\* QUIC_FRE_ASSERT(QUIC_SUCCEEDED(Status)) of line 435 fails: the allocation
\* in QuicSocketContextPrepareReceive returned NULL.
RearmFailureIsFatal(blk) == blk = NULL

\* RecvHandler returns and the socket context is re-armed (lines 429-435);
\* a failed allocation fails the QUIC_FRE_ASSERT.
WorkerRearm(ok) ==
    /\ Running
    /\ WorkerPc = "callback"
    /\ LET blk == QuicDataPathAllocRecvBlock(RecvBlocksAllocated, ok) IN
       IF RearmFailureIsFatal(blk)
       THEN /\ Process' = "assert"
            /\ UNCHANGED <<WorkerPc, evList, Bindings, RecvBlocksAllocated,
                           RecvBlocks>>
       ELSE /\ Bindings' = QuicSocketContextPrepareReceive(CurrentSc, blk)
            /\ RecvBlocksAllocated' =
                   IF blk = NULL THEN RecvBlocksAllocated
                   ELSE RecvBlocksAllocated \cup {blk}
            /\ RecvBlocks' =
                   IF blk = NULL THEN RecvBlocks
                   ELSE [RecvBlocks EXCEPT ![blk] =
                            PreparedBlock(AllocatedRecvBlock(0))]
            /\ evList' = Tail(evList)
            /\ WorkerPc' = "event"
            /\ UNCHANGED Process
    /\ UseAfterFree' = (UseAfterFree \/ Dangling)
    /\ UNCHANGED <<RecvRet, DatapathShutdown, BindingsRundown, DatapathFreed,
                   PoolsInitialized, UninitPc, DeletePc, UserHeld,
                   kernelVars, sendVars, LastCall>>

\* ------------------------------------------------------------ returning blocks

\* The chains of datagrams a user can pass: the blocks of held, linked through
\* Next in any order, each at most once; <<>> is a NULL chain.
RECURSIVE Chains(_)
Chains(held) ==
    {<<>>} \cup UNION {{<<blk>> \o rest : rest \in Chains(held \ {blk})} :
                          blk \in held}

\* A return that frees the head of the chain only.
ReturnChainHeadOnly(chain, allocated, blocks) ==
    IF chain = <<>> THEN allocated
    ELSE QuicPoolFree(blocks[Head(chain)].OwningPool, Head(chain), allocated)

\* The loop of lines 1319-1325: each datagram of the chain in turn is
\* unlinked and its block freed to the pool its OwningPool names.
RECURSIVE ReturnChain(_, _, _)
ReturnChain(chain, allocated, blocks) ==
    IF chain = <<>> THEN allocated
    ELSE ReturnChain(Tail(chain),
                     QuicPoolFree(blocks[Head(chain)].OwningPool, Head(chain),
                                  allocated),
                     blocks)

\* QuicDataPathBindingReturnRecvDatagrams on a chain of datagrams the user
\* holds.  A block back in the pool has no contents.
QuicDataPathBindingReturnRecvDatagrams(chain) ==
    /\ Running
    /\ chain \in Chains(UserHeld)
    /\ RecvBlocksAllocated' = ReturnChain(chain, RecvBlocksAllocated, RecvBlocks)
    /\ UserHeld' = UserHeld \ {chain[i] : i \in 1..Len(chain)}
    /\ RecvBlocks' = [blk \in RecvBlockIds |->
                         IF blk \in RecvBlocksAllocated'
                         THEN RecvBlocks[blk] ELSE BlankBlock]
    /\ UNCHANGED <<datapathVars, workerVars, kernelVars, bindingVars, sendVars, LastCall>>

\* ------------------------------------------------------------ send contexts

\* Datapath->MaxSendBatchSize, set once by QuicDataPathInitialize.
MaxSendBatchSize == QUIC_MAX_BATCH_SEND

\* QuicPoolAlloc(&SendContextPool): a context not in use, NULL when malloc fails.
SendContextPoolAlloc(ok) ==
    IF ok /\ \E c \in SendContextIds : SendContexts[c].Alloc = "free"
    THEN Min({c \in SendContextIds : SendContexts[c].Alloc = "free"})
    ELSE NULL

\* QuicDataPathBindingAllocSendContext: a zeroed context owned by worker 0.
QuicDataPathBindingAllocSendContext(b, ok) ==
    /\ Running
    /\ Bindings[b].Alloc = "live"
    /\ LET c == SendContextPoolAlloc(ok) IN
       /\ c # NULL
       /\ SendContexts' = [SendContexts EXCEPT ![c] =
              [NoSendContext EXCEPT !.Alloc = "user"]]
    /\ UNCHANGED <<SendBuffersAllocated, SubmitCount, LastAccepted, LastCall,
                   datapathVars, workerVars, kernelVars, bindingVars, blockVars>>

\* QuicDataPathBindingFreeSendContext: every buffer goes back to
\* SendBufferPool, then the context to SendContextPool.
FreeSendContext(contexts, c) == [contexts EXCEPT ![c] = NoSendContext]

QuicDataPathBindingFreeSendContext(c) ==
    /\ Running
    /\ SendContexts[c].Alloc = "user"
    /\ SendContexts' = FreeSendContext(SendContexts, c)
    /\ SendBuffersAllocated' = SendBuffersAllocated - SendContexts[c].BufferCount
    /\ UNCHANGED <<SubmitCount, LastAccepted, LastCall, datapathVars,
                   workerVars, kernelVars, bindingVars, blockVars>>

\* The batch test comparing with > instead of ==.
BatchLimitHitLate(c) == SendContexts[c].BufferCount > MaxSendBatchSize

\* The test at the head of QuicDataPathBindingAllocSendDatagram (line 1400).
BatchLimitHit(c) == SendContexts[c].BufferCount = MaxSendBatchSize

\* The full test comparing with the index of the last slot.
IsSendContextFullOffByOne(c) ==
    SendContexts[c].BufferCount = MaxSendBatchSize - 1

\* QuicDataPathBindingIsSendContextFull (line 1456).
QuicDataPathBindingIsSendContextFull(c) ==
    SendContexts[c].BufferCount = MaxSendBatchSize

\* ++SendContext->BufferCount (line 1427).
NextBufferCount(n) == n + 1

\* What QuicDataPathBindingAllocSendDatagram returned: Buffer is the returned
\* QUIC_BUFFER* (NULL, or the slot number plus one), Data its Buffer field;
\* BatchLimit and PoolFailed tell which test the call ran into.
AllocResult(c, buffer, data, batch, pool) ==
    [Op |-> "AllocSendDatagram", Context |-> c, Buffer |-> buffer,
     Data |-> data, BatchLimit |-> batch, PoolFailed |-> pool]

\* QuicDataPathBindingAllocSendDatagram.  The function returns Buffer: NULL when
\* the batch limit is hit; otherwise &SendContext->Buffers[BufferCount], whose
\* Buffer field is the pool's buffer, or NULL when the pool allocation failed
\* (ok = FALSE): lines 1409-1420 assign Buffer before the pool is asked.
QuicDataPathBindingAllocSendDatagram(c, ok) ==
    /\ Running
    /\ SendContexts[c].Alloc = "user"
    /\ IF BatchLimitHit(c) THEN
            /\ LastCall' = AllocResult(c, NULL, NULL, TRUE, FALSE)
            /\ UNCHANGED <<SendContexts, SendBuffersAllocated>>
       ELSE IF ~ok THEN
            /\ LastCall' = AllocResult(c, SendContexts[c].BufferCount + 1, NULL,
                                       FALSE, TRUE)
            /\ UNCHANGED <<SendContexts, SendBuffersAllocated>>
       ELSE
            /\ LastCall' = AllocResult(c, SendContexts[c].BufferCount + 1,
                                       SendContexts[c].BufferCount + 1,
                                       FALSE, FALSE)
            /\ SendContexts' = [SendContexts EXCEPT ![c].BufferCount =
                                    NextBufferCount(@)]
            /\ SendBuffersAllocated' = SendBuffersAllocated + 1
    /\ UNCHANGED <<SubmitCount, LastAccepted, datapathVars, workerVars,
                   kernelVars, bindingVars, blockVars>>

\* ------------------------------------------------------------ send

\* What the sendto loop of QuicDataPathBindingSend (lines 1497-1563) can do
\* with a context holding buffers from..count-1: accept k of them and then
\* finish ("done"), or have the next sendto fail with EAGAIN/EWOULDBLOCK
\* ("EAGAIN") or with another error ("errno").  sendto passes no address, so
\* on a closed or unconnected socket the first call fails (EBADF,
\* EDESTADDRREQ).
SendOutcomes(from, count, connected) ==
    IF ~connected
    THEN {[accepted |-> 0, end |-> "errno"]}
    ELSE {[accepted |-> count - from, end |-> "done"]}
         \cup {[accepted |-> k, end |-> e] :
                  k \in {j \in 0..count : j < count - from},
                  e \in {"EAGAIN", "errno"}}

\* What QuicDataPathBindingSend returned, and whether it freed the context.
\* Ticket is the number of the call; Accepted and End tell what the sendto
\* loop met (the buffers the kernel took, and how the loop ended).
SendResult(c, ticket, out, status, freed) ==
    [Op |-> "SendTo", Context |-> c, Ticket |-> ticket,
     Accepted |-> out.accepted, End |-> out.end,
     Status |-> status, Freed |-> freed]

\* A send that reports success whatever the sendto loop met.
SendStatusAlwaysSuccess(end) == "QUIC_STATUS_SUCCESS"

\* Status at Exit: it starts as QUIC_STATUS_SUCCESS (line 1467), becomes errno
\* on a sendto error other than EAGAIN/EWOULDBLOCK (line 1544), and is
\* QUIC_STATUS_SUCCESS after the loop (line 1667).
SendStatus(end) == IF end = "errno" THEN "errno" ELSE "QUIC_STATUS_SUCCESS"

\* A loop that steps CurrentIndex also past the buffer whose sendto failed.
NextCurrentIndexCountsFailure(index, accepted) == index + accepted + 1

\* SendContext->CurrentIndex when the sendto loop is left (lines 1497-1499):
\* the loop increment steps it once after every sendto that succeeded, the
\* goto Exit of a failed sendto leaves the loop before the increment.
NextCurrentIndex(index, accepted) == index + accepted

\* QuicDataPathBindingSendTo -> QuicDataPathBindingSend with LocalAddress NULL.
\* SendPending is set on EAGAIN and the context is then neither freed nor
\* linked anywhere (the QuicSocketContextPendSend call is commented out);
\* Status keeps its initial value QUIC_STATUS_SUCCESS.
QuicDataPathBindingSendTo(b, c, out) ==
    /\ Running
    /\ SubmitCount < MaxSendCalls
    /\ Bindings[b].Alloc = "live"
    /\ SendContexts[c].Alloc = "user"
    /\ out \in SendOutcomes(SendContexts[c].CurrentIndex,
                            SendContexts[c].BufferCount,
                            Sockets[Bindings[b].SocketFd].open
                                /\ Bindings[b].RemoteAddress # ZeroAddress)
    /\ SubmitCount' = SubmitCount + 1
    /\ LastAccepted' = IF out.accepted = 0 THEN LastAccepted
                       ELSE <<SubmitCount + 1,
                              SendContexts[c].CurrentIndex + out.accepted - 1>>
    /\ IF out.end = "EAGAIN" THEN
            /\ SendContexts' = [SendContexts EXCEPT
                   ![c].Alloc = "deferred",
                   ![c].Ticket = SubmitCount + 1,
                   ![c].CurrentIndex = NextCurrentIndex(@, out.accepted)]
            /\ LastCall' = SendResult(c, SubmitCount + 1, out,
                                      SendStatus(out.end), FALSE)
            /\ UNCHANGED SendBuffersAllocated
       ELSE
            /\ SendContexts' = FreeSendContext(SendContexts, c)
            /\ SendBuffersAllocated' =
                   SendBuffersAllocated - SendContexts[c].BufferCount
            /\ LastCall' = SendResult(c, SubmitCount + 1, out,
                                      SendStatus(out.end), TRUE)
    /\ UNCHANGED <<datapathVars, workerVars, kernelVars, bindingVars, blockVars>>

\* What a call of QuicDataPathBindingSendFromTo did: the sendmsg calls it
\* issued and whether it returned to its caller.
SendFromToResult(c, sendmsg, returned) ==
    [Op |-> "SendFromTo", Context |-> c, Sendmsg |-> sendmsg,
     Returned |-> returned]

\* QuicDataPathBindingSendFromTo: QUIC_FRE_ASSERT(FALSE) (line 1717).  It does
\* not call QuicDataPathBindingSend, whose sendmsg branch (lines 1564-1665)
\* has no caller.
QuicDataPathBindingSendFromTo(b, c) ==
    /\ Running
    /\ Bindings[b].Alloc = "live"
    /\ SendContexts[c].Alloc = "user"
    /\ Process' = "assert"
    /\ LastCall' = SendFromToResult(c, 0, FALSE)
    /\ UNCHANGED <<DatapathShutdown, BindingsRundown, DatapathFreed,
                   PoolsInitialized, UninitPc, workerVars, kernelVars,
                   bindingVars, blockVars, sendVars>>

\* ------------------------------------------------------------ specification

Next ==
    \/ \E b \in BindingIds, remote \in BOOLEAN, fail \in CreateFailures :
           QuicDataPathBindingCreate(b, 0, remote, fail, FALSE)
    \/ \E b \in BindingIds : BindingDeleteClose(b)
    \/ \E b \in BindingIds : BindingDeleteWait(b)
    \/ \E b \in BindingIds : BindingDeleteFree(b)
    \/ UninitRelease
    \/ UninitSetShutdown
    \/ UninitJoin
    \/ \E fd \in FdIds, len \in DatagramLengths : Arrive(fd, len)
    \/ WorkerLoopCheck
    \/ WorkerKevent
    \/ WorkerKeventFail
    \/ WorkerBatchDone
    \/ WorkerSkipEmpty
    \/ \E control \in ControlMessages : WorkerRecvmsg(control)
    \/ WorkerRecvmsgFail
    \/ WorkerFault
    \/ WorkerRecvComplete
    \/ \E ok \in BOOLEAN : WorkerRearm(ok)
    \/ \E chain \in Chains(RecvBlockIds) :
           QuicDataPathBindingReturnRecvDatagrams(chain)

Spec == Init /\ [][Next]_vars

\* ------------------------------------------------------------ bind specification

\* Bindings are created, on any local port or one of the caller's choice, in
\* release and in debug builds, and deleted.
BindNext ==
    \/ \E b \in BindingIds, local \in LocalPorts, remote \in BOOLEAN,
          fail \in CreateFailures, dbg \in BOOLEAN :
           QuicDataPathBindingCreate(b, local, remote, fail, dbg)
    \/ \E b \in BindingIds : BindingDeleteClose(b)
    \/ \E b \in BindingIds : BindingDeleteWait(b)
    \/ \E b \in BindingIds : BindingDeleteFree(b)

BindSpec == Init /\ [][BindNext]_vars

\* ------------------------------------------------------------ init specification

\* The process before its first QuicDataPathInitialize.
InitInit ==
    /\ NoDatapath
    /\ Sockets = [f \in FdIds |-> ClosedSocket]
    /\ Kqueue = <<>>
    /\ ArrivalCount = 0
    /\ Bindings = [b \in BindingIds |-> NoBinding]
    /\ DeletePc = [b \in BindingIds |-> "idle"]
    /\ LastCall = [Op |-> "none"]
    /\ RecvBlocksAllocated = {}
    /\ UserHeld = {}
    /\ RecvBlocks = [blk \in RecvBlockIds |-> BlankBlock]
    /\ InitSend

\* QuicDataPathInitialize, retried until it succeeds, then the datapath's life.
InitNext ==
    \/ \E recv \in BOOLEAN, unreach \in BOOLEAN, out \in BOOLEAN,
          alloc \in BOOLEAN, kq \in BOOLEAN, thread \in BOOLEAN :
           QuicDataPathInitialize(recv, unreach, out, alloc, kq, thread)
    \/ Next

InitSpec == InitInit /\ [][InitNext]_vars

\* ------------------------------------------------------------ send specification

\* The state after QuicDataPathBindingCreate(1, 0, TRUE, "none", FALSE) and the worker's
\* first loop test: binding 1 is connected (socket() returned descriptors 0
\* and 1, block 1 is armed) and the worker waits in kevent.
ConnectedBinding ==
    /\ DatapathShutdown = FALSE
    /\ BindingsRundown = RundownAcquire(RundownInitialize)
    /\ DatapathFreed = FALSE
    /\ Process = "running"
    /\ PoolsInitialized = TRUE
    /\ UninitPc = "idle"
    /\ WorkerPc = "kevent"
    /\ evList = <<>>
    /\ RecvRet = 0
    /\ UseAfterFree = FALSE
    /\ Sockets = [f \in FdIds |->
                     IF f = 0 THEN NewSocket
                     ELSE IF f = 1
                          THEN [NewSocket EXCEPT
                                   !.bound = TRUE, !.knote = 1,
                                   !.name = Ipv4Address(EphemeralPort(1)),
                                   !.peer = PeerAddress]
                          ELSE ClosedSocket]
    /\ Kqueue = <<>>
    /\ ArrivalCount = 0
    /\ Bindings = [b \in BindingIds |->
                      IF b = 1
                      THEN [FreshBinding(1, 0) EXCEPT
                                !.LocalAddress = Ipv4Address(EphemeralPort(1)),
                                !.RemoteAddress = PeerAddress,
                                                !.SocketFd = 1,
                                                !.CurrentRecvBlock = 1,
                                                !.RecvMsgHdr = 1]
                      ELSE NoBinding]
    /\ DeletePc = [b \in BindingIds |-> "idle"]
    /\ LastCall = CreateResult([LocalPort |-> 0, Remote |-> TRUE],
                               "QUIC_STATUS_SUCCESS", 1)
    /\ RecvBlocksAllocated = {1}
    /\ UserHeld = {}
    /\ RecvBlocks = [blk \in RecvBlockIds |->
                        IF blk = 1 THEN PreparedBlock(AllocatedRecvBlock(0))
                        ELSE BlankBlock]

SendInit == ConnectedBinding /\ InitSend

\* The user's calls on the send path.
SendNext ==
    \/ \E b \in BindingIds, ok \in BOOLEAN : QuicDataPathBindingAllocSendContext(b, ok)
    \/ \E c \in SendContextIds : QuicDataPathBindingFreeSendContext(c)
    \/ \E c \in SendContextIds, ok \in BOOLEAN :
           QuicDataPathBindingAllocSendDatagram(c, ok)
    \/ \E b \in BindingIds, c \in SendContextIds,
          out \in [accepted : 0..MaxSendBatchSize, end : {"done", "EAGAIN", "errno"}] :
           QuicDataPathBindingSendTo(b, c, out)
    \/ \E b \in BindingIds, c \in SendContextIds : QuicDataPathBindingSendFromTo(b, c)

SendSpec == SendInit /\ [][SendNext]_vars

\* ------------------------------------------------------------ claims

\* The socket contexts of bindings that exist and are not being deleted.
LiveBindings == {b \in BindingIds : Bindings[b].Alloc = "live" /\ DeletePc[b] = "idle"}

\* The worker is inside the receive completion path for binding b: recvmsg has
\* returned a datagram and the re-arm after the upcall has not finished.
InRecvCompletion(b) ==
    /\ WorkerPc \in {"recvd", "callback"}
    /\ CurrentSc = b

\* C1: once QuicDataPathBindingDelete(b) has returned, no receive callback for
\* b starts: the worker never enters RecvHandler for a binding whose delete
\* is done.
C1_NoCallbackAfterDelete ==
    [][(WorkerPc = "recvd" /\ WorkerPc' = "callback")
           => DeletePc[CurrentSc] # "done"]_vars

\* C2: QuicDataPathBindingDelete(b) does not pass the rundown wait, and does
\* not free b, while the worker is inside the receive completion path for b;
\* the worker never dereferences a freed socket context.
C2_DeleteWaitsForUpcalls ==
    /\ \A b \in BindingIds :
           InRecvCompletion(b) =>
               /\ DeletePc[b] \in {"idle", "wait"}
               /\ Bindings[b].Alloc # "freed"
    /\ ~UseAfterFree

\* Every binding that was created has been through QuicDataPathBindingDelete
\* up to position pcs.
AllBindingsDeleted(pcs) ==
    \A b \in BindingIds : Bindings[b].Alloc # "none" => DeletePc[b] \in pcs

\* C3 as stated: QuicDataPathUninitialize returns only after every
\* QuicDataPathBindingDelete has returned and the worker has been joined, and
\* the pools and the datapath are released only after both.
C3_UninitAfterDeletesReturned ==
    (UninitPc = "done" \/ ~PoolsInitialized \/ DatapathFreed) =>
        /\ AllBindingsDeleted({"done"})
        /\ WorkerPc = "exited"

\* C3 as amended: QuicDataPathUninitialize returns, and the pools and the
\* datapath are released, only after the bindings rundown has drained to zero
\* (every binding created has had its QuicDataPathBindingDelete release its
\* bindings rundown reference, though the delete may still be freeing the
\* binding) and the worker has left its loop and been joined.
C3_TeardownOrdering ==
    (UninitPc = "done" \/ ~PoolsInitialized \/ DatapathFreed) =>
        /\ RundownDrained(BindingsRundown)
        /\ AllBindingsDeleted({"released", "done"})
        /\ WorkerPc = "exited"

\* QuicDataPathUninitialize has returned on a datapath that had a binding.
C3_Witness ==
    /\ UninitPc = "done"
    /\ \E b \in BindingIds : DeletePc[b] = "done"

\* C4: setting the datapath shutdown flag is accompanied by a wake of the
\* blocked worker: whenever the flag is set and the worker is blocked in
\* kevent, an event is pending on the kqueue, so the worker leaves its loop.
C4_ShutdownWakesWorker ==
    (DatapathShutdown /\ WorkerPc = "kevent") => Kqueue # <<>>

\* No operation is in progress.
Quiescent ==
    /\ Running
    /\ WorkerPc \in {"kevent", "exited"}
    /\ \A b \in BindingIds : DeletePc[b] \in {"idle", "done"}
    /\ UninitPc \in {"idle", "done"}

\* C5: in every quiescent state the receive blocks allocated and not freed
\* are the blocks armed on live socket contexts plus the blocks the user
\* holds.
C5_RecvBlockAccounting ==
    Quiescent =>
        Cardinality(RecvBlocksAllocated) =
            Cardinality({b \in LiveBindings : Bindings[b].CurrentRecvBlock # NULL})
            + Cardinality(UserHeld)

\* The parties that own receive block blk.
InPool(blk) == blk \notin RecvBlocksAllocated
ArmedOn(blk) == {b \in BindingIds : /\ Bindings[b].Alloc = "live"
                                    /\ Bindings[b].CurrentRecvBlock = blk}
Owners(blk) ==
    (IF InPool(blk) THEN 1 ELSE 0) + Cardinality(ArmedOn(blk))
    + (IF blk \in UserHeld THEN 1 ELSE 0)

\* C6: every receive block is owned by exactly one of its pool, one socket
\* context (as CurrentRecvBlock) and the user; and the receive header of a
\* socket context never points into a block the user holds or the pool has
\* taken back.
C6_ExclusiveOwnership ==
    /\ \A blk \in RecvBlockIds : Owners(blk) = 1
    /\ \A b \in BindingIds :
           (Bindings[b].Alloc = "live" /\ Bindings[b].RecvMsgHdr # NULL) =>
               /\ Bindings[b].RecvMsgHdr \notin UserHeld
               /\ ~InPool(Bindings[b].RecvMsgHdr)

\* A step in which QuicDataPathBindingAllocSendDatagram returned.
AllocSendDatagramReturns ==
    /\ LastCall' # LastCall
    /\ LastCall'.Op = "AllocSendDatagram"

\* C7: QuicDataPathBindingAllocSendDatagram returns NULL if and only if
\* BufferCount == MaxSendBatchSize or the send-buffer pool allocation fails;
\* then BufferCount is unchanged; a non-NULL result has a non-NULL data
\* pointer and BufferCount has grown by exactly one.
C7_AllocSendDatagramNil ==
    [][AllocSendDatagramReturns =>
          LET c == LastCall'.Context
              before == SendContexts[c].BufferCount
              after == SendContexts'[c].BufferCount
          IN /\ LastCall'.Buffer = NULL
                    <=> (before = MaxSendBatchSize \/ LastCall'.PoolFailed)
             /\ LastCall'.Buffer = NULL => after = before
             /\ LastCall'.Buffer # NULL =>
                    /\ LastCall'.Data # NULL
                    /\ after = before + 1]_vars

\* C8: for every send context between its allocation and its free,
\* 0 <= BufferCount <= MaxSendBatchSize = 10, and BufferCount never decreases.
C8_BatchBound ==
    /\ [](/\ MaxSendBatchSize = 10
          /\ \A c \in SendContextIds :
                 /\ 0 <= SendContexts[c].BufferCount
                 /\ SendContexts[c].BufferCount <= MaxSendBatchSize)
    /\ [][\A c \in SendContextIds :
              (SendContexts[c].Alloc # "free" /\ SendContexts'[c].Alloc # "free")
                  => SendContexts'[c].BufferCount >= SendContexts[c].BufferCount]_vars

\* A context was filled to the batch size and a further allocation refused.
C8_Witness ==
    \E c \in SendContextIds :
        /\ SendContexts[c].Alloc = "user"
        /\ SendContexts[c].BufferCount = 10
        /\ LastCall = AllocResult(c, NULL, NULL, TRUE, FALSE)

\* C9: QuicDataPathBindingIsSendContextFull is true exactly when
\* BufferCount == MaxSendBatchSize, which is exactly when the next
\* QuicDataPathBindingAllocSendDatagram fails for the batch limit: an
\* allocation on a context holding 10 buffers returns NULL and leaves the
\* context full, and one on a context that is not full is not refused for the
\* batch limit.
C9_IsSendContextFull ==
    /\ [](\A c \in SendContextIds :
             SendContexts[c].Alloc = "user" =>
                 /\ QuicDataPathBindingIsSendContextFull(c)
                        <=> SendContexts[c].BufferCount = 10
                 /\ QuicDataPathBindingIsSendContextFull(c) <=> BatchLimitHit(c))
    /\ [][AllocSendDatagramReturns =>
             LET c == LastCall'.Context IN
             IF QuicDataPathBindingIsSendContextFull(c)
             THEN /\ LastCall'.Buffer = NULL
                  /\ LastCall'.BatchLimit
                  /\ SendContexts'[c].BufferCount = 10
             ELSE ~LastCall'.BatchLimit]_vars

\* The eleventh allocation on a context returned NULL and the context is full.
C9_Witness ==
    \E c \in SendContextIds :
        /\ SendContexts[c].Alloc = "user"
        /\ QuicDataPathBindingIsSendContextFull(c)
        /\ LastCall = AllocResult(c, NULL, NULL, TRUE, FALSE)

\* Buffer x was submitted before buffer y: an earlier send_to call, or the
\* same call and a lower index.
SubmittedBefore(x, y) == x[1] < y[1] \/ (x[1] = y[1] /\ x[2] < y[2])

\* C10: the kernel accepts buffers in submission order, also across EAGAIN: a
\* later send never overtakes an earlier pending one, so no context deferred
\* by EAGAIN holds an unsent buffer submitted before the buffer the kernel
\* accepted last.
C10_SendFifo ==
    \A c \in SendContextIds :
        SendContexts[c].Alloc = "deferred" =>
            ~SubmittedBefore(<<SendContexts[c].Ticket, SendContexts[c].CurrentIndex>>,
                             LastAccepted)

\* C11: a send context whose send_to returned after EAGAIN/EWOULDBLOCK is resumed
\* by the worker once the socket is writable: the worker finds it on the
\* pending list of a live socket context, from which it resumes the context
\* at CurrentIndex and then unlinks and frees it.
C11_DeferredSendsLinked ==
    \A c \in SendContextIds :
        SendContexts[c].Alloc = "deferred" =>
            \E b \in BindingIds :
                /\ Bindings[b].Alloc = "live"
                /\ InSeq(Bindings[b].PendingSendContextHead, c)

\* A step in which QuicDataPathBindingSendTo returned.
SendToReturns ==
    /\ LastCall' # LastCall
    /\ LastCall'.Op = "SendTo"

\* C12: QuicDataPathBindingSendTo returns QUIC_STATUS_SUCCESS when every buffer
\* from CurrentIndex to BufferCount-1 was accepted, and also when a sendto
\* returned EAGAIN/EWOULDBLOCK, in which case the call does not free the
\* context; on any other sendto error it returns the socket error, no
\* further buffer of the batch reaches the kernel, and the context (with its
\* buffers) is freed before the call returns.
C12_SendToResult ==
    [][SendToReturns =>
          LET r == LastCall'
              c == r.Context
              from == SendContexts[c].CurrentIndex
              count == SendContexts[c].BufferCount
          IN /\ (r.Status = "QUIC_STATUS_SUCCESS") <=> (r.End \in {"done", "EAGAIN"})
             /\ r.End = "done" => r.Accepted = count - from
             /\ r.End = "EAGAIN" =>
                    /\ ~r.Freed
                    /\ SendContexts'[c].Alloc # "free"
                    /\ SendContexts'[c].BufferCount = count
                    /\ SendContexts'[c].CurrentIndex = from + r.Accepted
                    /\ SendBuffersAllocated' = SendBuffersAllocated
             /\ r.End = "errno" =>
                    /\ r.Status = "errno"
                    /\ r.Accepted < count - from
                    /\ r.Freed
                    /\ SendContexts'[c].Alloc = "free"
                    /\ SendBuffersAllocated' = SendBuffersAllocated - count
             /\ LastAccepted' = IF r.Accepted = 0 THEN LastAccepted
                                ELSE <<r.Ticket, from + r.Accepted - 1>>]_vars

\* A send_to whose second sendto failed with an error other than EAGAIN: one
\* buffer was accepted, the error was returned and the context freed.
C12_Witness ==
    /\ LastCall.Op = "SendTo"
    /\ LastCall.End = "errno"
    /\ LastCall.Accepted = 1
    /\ LastCall.Status = "errno"
    /\ SendContexts[LastCall.Context].Alloc = "free"

\* No send is outstanding: the user holds no send context and no send context
\* waits on the pending list of a socket context.
NoPendingSends ==
    /\ Running
    /\ \A c \in SendContextIds : SendContexts[c].Alloc # "user"
    /\ \A b \in BindingIds :
           Bindings[b].Alloc = "live" => Bindings[b].PendingSendContextHead = <<>>

\* C13: every send context and every send buffer goes back to its pool on
\* every outcome of the send, so that with no send outstanding no send context
\* and no send buffer is allocated.
C13_SendResourcesRoundTrip ==
    NoPendingSends =>
        /\ \A c \in SendContextIds : SendContexts[c].Alloc = "free"
        /\ SendBuffersAllocated = 0

\* A step in which QuicDataPathBindingCreate returned a failure status.
BindingCreateFails ==
    /\ LastCall' # LastCall
    /\ LastCall'.Op = "BindingCreate"
    /\ LastCall'.Status # "QUIC_STATUS_SUCCESS"

\* C14: a QuicDataPathBindingCreate that fails tears down what it constructed
\* and leaves the datapath as before the call: the same descriptors open, the
\* same readiness registrations, the same receive blocks allocated, the same
\* bindings and bindings-rundown count, and the process running.
C14_CreateFailureClean ==
    [][BindingCreateFails =>
          /\ Sockets' = Sockets
          /\ Kqueue' = Kqueue
          /\ RecvBlocksAllocated' = RecvBlocksAllocated
          /\ Bindings' = Bindings
          /\ BindingsRundown' = BindingsRundown
          /\ Process' = "running"]_vars

\* The initial reference on the bindings rundown, given up when
\* QuicDataPathUninitialize starts to wait.
InitialReference == IF UninitPc = "idle" THEN RundownInitialize ELSE 0

\* No QuicDataPathBindingDelete is in progress (QuicDataPathBindingCreate is
\* one step).
NoCreateOrDeleteInProgress ==
    \A b \in BindingIds : DeletePc[b] \in {"idle", "done"}

\* C15: with no binding_create or binding_delete in progress, the references
\* on the bindings rundown beyond the initial one are as many as the live
\* bindings; a failed binding_create leaves the count unchanged, and a
\* binding_delete decrements it by exactly one (at line 1260, and nowhere
\* else).
C15_BindingsRundownAccounting ==
    /\ [](NoCreateOrDeleteInProgress =>
              BindingsRundown - InitialReference = Cardinality(LiveBindings))
    /\ [][BindingCreateFails => BindingsRundown' = BindingsRundown]_vars
    /\ [][\A b \in BindingIds :
              DeletePc'[b] # DeletePc[b] =>
                  BindingsRundown' =
                      IF DeletePc[b] = "wait" THEN BindingsRundown - 1
                      ELSE BindingsRundown]_vars

\* One binding has been deleted and another is live: two references are held.
C15_Witness ==
    /\ DeletePc[1] = "done"
    /\ Bindings[2].Alloc = "live"
    /\ DeletePc[2] = "idle"
    /\ UninitPc = "idle"
    /\ BindingsRundown = 2

\* C16: the Shutdown flag of a binding, once true, stays true, and while it is
\* true no new receive block is armed on the binding's socket context (its
\* CurrentRecvBlock is only ever detached).
C16_ShutdownClosesBinding ==
    [][\A b \in BindingIds :
          Bindings[b].Shutdown =>
              /\ Bindings'[b].Shutdown
              /\ Bindings'[b].CurrentRecvBlock
                     \in {NULL, Bindings[b].CurrentRecvBlock}]_vars

\* A step in which QuicDataPathInitialize returned.
DataPathInitializeReturns ==
    /\ LastCall' # LastCall
    /\ LastCall'.Op = "DataPathInitialize"

\* C17: with a NULL receive or unreachable callback QuicDataPathInitialize
\* returns QUIC_STATUS_INVALID_PARAMETER without allocating a datapath,
\* starting a worker or writing the output handle; when the allocation of the
\* datapath fails it returns QUIC_STATUS_OUT_OF_MEMORY; when worker
\* initialization fails the datapath object is freed, no worker thread is
\* left running and the output handle is not written.
C17_InitFailureHandling ==
    [][DataPathInitializeReturns =>
          LET r == LastCall'
              a == r.Args
          IN /\ (~a.RecvCallback \/ ~a.UnreachableCallback) =>
                    /\ r.Status = "QUIC_STATUS_INVALID_PARAMETER"
                    /\ ~r.NewDataPath
                    /\ UNCHANGED <<datapathVars, workerVars>>
             /\ (a.RecvCallback /\ a.UnreachableCallback /\ a.NewDataPath
                    /\ ~a.Alloc) =>
                    /\ r.Status = "QUIC_STATUS_OUT_OF_MEMORY"
                    /\ ~r.NewDataPath
                    /\ UNCHANGED <<datapathVars, workerVars>>
             /\ (a.RecvCallback /\ a.UnreachableCallback /\ a.NewDataPath
                    /\ a.Alloc /\ (~a.Kqueue \/ ~a.Thread)) =>
                    /\ r.Status # "QUIC_STATUS_SUCCESS"
                    /\ ~r.NewDataPath
                    /\ DatapathFreed'
                    /\ ~PoolsInitialized'
                    /\ UninitPc' = "none"
                    /\ WorkerPc' = "none"]_vars

\* QuicDataPathInitialize has failed in QuicThreadCreate: the datapath was
\* allocated and freed again, and no worker runs.
C17_Witness ==
    /\ LastCall.Op = "DataPathInitialize"
    /\ LastCall.Args.Alloc
    /\ LastCall.Args.Kqueue
    /\ ~LastCall.Args.Thread
    /\ LastCall.Status = "QuicThreadCreate"
    /\ DatapathFreed
    /\ WorkerPc = "none"

\* The worker is blocked in kevent and no event is pending on the kqueue.
WorkerIdle ==
    /\ Running
    /\ WorkerPc = "kevent"
    /\ Kqueue = <<>>

\* C18: every datagram the kernel has queued on a socket of a live binding is
\* delivered to the receive callback: no queued datagram stays undelivered
\* while the binding is live and the worker runs, so whenever the worker is
\* blocked with no event pending the sockets of the live bindings hold no
\* datagram.
C18_NoDatagramLeftQueued ==
    WorkerIdle =>
        \A b \in LiveBindings : Sockets[Bindings[b].SocketFd].queue = <<>>

\* A step in which QuicDataPathBindingSendFromTo was called.
SendFromToCalled ==
    /\ LastCall' # LastCall
    /\ LastCall'.Op = "SendFromTo"

\* C19: QuicDataPathBindingSendFromTo issues exactly one sendmsg carrying the
\* buffers of the context and returns to its caller, the context being freed
\* unless the send is pending.
C19_SendFromToSendsOnce ==
    [][SendFromToCalled =>
          /\ LastCall'.Sendmsg = 1
          /\ LastCall'.Returned
          /\ Process' = "running"
          /\ SendContexts'[LastCall'.Context].Alloc \in {"free", "deferred"}]_vars

\* A step in which QuicDataPathBindingReturnRecvDatagrams returned blocks the
\* user held.
ReturnsRecvDatagrams ==
    /\ UserHeld' # UserHeld
    /\ UserHeld' \subseteq UserHeld

\* C20: a receive block the user holds is returned to its owning pool also
\* after its binding was deleted or the datapath uninitialized: no block is
\* returned to a pool that has been uninitialized or whose datapath memory
\* has been freed.
C20_PostShutdownReturnsSafe ==
    [][ReturnsRecvDatagrams => (PoolsInitialized /\ ~DatapathFreed)]_vars

\* A QuicDataPathBindingDelete has returned.
SomeDeleteReturned == \E b \in BindingIds : DeletePc[b] = "done"

\* The worker thread is in its loop and the process runs.
WorkerInLoop == Running /\ WorkerPc \notin {"none", "exited"}

\* C21: deleting a binding does not stop the worker: once a
\* QuicDataPathBindingDelete has returned, also with an event of the deleted
\* binding's closed socket left in the batch the worker handles, the worker
\* stays in its loop until the datapath is shut down: it does not leave the
\* loop and is not stopped by a fault.
C21_DeleteKeepsWorkerRunning ==
    [][(SomeDeleteReturned /\ ~DatapathShutdown /\ WorkerInLoop) =>
           (WorkerPc' # "exited" /\ Process' # "fault")]_vars

\* C22: QuicDataPathBindingReturnRecvDatagrams frees every datagram of the
\* chain, each once, to the pool its block's OwningPool names: the blocks that
\* leave the user's hands are exactly the blocks that leave the allocated set
\* of that pool.  OwningPool is set when the block is allocated, to the pool
\* the block was taken from, and does not change while the block is allocated.
C22_ReturnToOwningPool ==
    /\ [](\A blk \in RecvBlocksAllocated :
             RecvBlocks[blk].OwningPool = RecvBlockPool(0))
    /\ [][\A blk \in RecvBlocksAllocated \cap RecvBlocksAllocated' :
              RecvBlocks'[blk].OwningPool = RecvBlocks[blk].OwningPool]_vars
    /\ [][ReturnsRecvDatagrams =>
              /\ UserHeld \ UserHeld' \subseteq RecvBlocksAllocated
              /\ RecvBlocksAllocated' = RecvBlocksAllocated \ (UserHeld \ UserHeld')
              /\ \A blk \in UserHeld \ UserHeld' :
                     RecvBlocks[blk].OwningPool = RecvBlockPool(0)]_vars

\* Both datagrams were delivered and the user has returned them: the block of
\* the datagram delivered last is back in its pool.
C22_Witness ==
    /\ ArrivalCount = 2
    /\ UserHeld = {}
    /\ LastCall.Op = "RecvHandler"
    /\ LastCall.Datagram \notin RecvBlocksAllocated

\* C23: for every binding between its successful create and its delete, the
\* address QuicDataPathBindingGetLocalAddress returns is the address
\* getsockname reports for the binding's socket, and it does not change while
\* the binding exists.
C23_AddressEcho ==
    /\ [](\A b \in LiveBindings :
             QuicDataPathBindingGetLocalAddress(b)
                 = Sockets[Bindings[b].SocketFd].name)
    /\ [][\A b \in BindingIds :
              (Bindings[b].Alloc = "live" /\ Bindings'[b].Alloc = "live") =>
                  Bindings'[b].LocalAddress = Bindings[b].LocalAddress]_vars

\* A binding created with a local port of the caller's choice and a remote
\* address is live, on a port the kernel has assigned.
C23_Witness ==
    /\ LastCall.Op = "BindingCreate"
    /\ LastCall.Status = "QUIC_STATUS_SUCCESS"
    /\ LastCall.Args = [LocalPort |-> 4433, Remote |-> TRUE]
    /\ LastCall.NewBinding \in LiveBindings
    /\ QuicDataPathBindingGetLocalAddress(LastCall.NewBinding).family = "AF_INET"
    /\ QuicDataPathBindingGetLocalAddress(LastCall.NewBinding).port # 0

\* C24: after a successful QuicDataPathBindingCreate the binding's Connected
\* flag is true exactly when a remote address was supplied, that is when the
\* binding's socket was connect()-ed, and QuicDataPathBindingGetRemoteAddress
\* then returns that remote address.
C24_ConnectedFlag ==
    \A b \in LiveBindings :
        LET peer == Sockets[Bindings[b].SocketFd].peer IN
        /\ Bindings[b].Connected <=> peer # ZeroAddress
        /\ peer # ZeroAddress => QuicDataPathBindingGetRemoteAddress(b) = peer

\* C30: a QuicDataPathBindingCreate called with a non-zero local port binds
\* the socket to that port, so that after getsockname the binding's local
\* port is the port asked for and the debug assertion of
\* QuicSocketContextInitialize does not fail.
C30_RequestedPortHonoured ==
    /\ Process # "assert"
    /\ (/\ LastCall.Op = "BindingCreate"
        /\ LastCall.Status = "QUIC_STATUS_SUCCESS"
        /\ LastCall.Args.LocalPort # 0
        /\ LastCall.NewBinding \in LiveBindings) =>
            LET b == LastCall.NewBinding IN
            /\ Bindings[b].LocalAddress.port = LastCall.Args.LocalPort
            /\ Sockets[Bindings[b].SocketFd].name.port = LastCall.Args.LocalPort

\* C25: when QuicDataPathBindingSendTo returns after the sendto for buffer i
\* met EAGAIN/EWOULDBLOCK, the send context has Pending set, is the last
\* entry of the pending-send list of a socket context whose SendWaiting is
\* set, and has CurrentIndex = i, the first buffer not sent.
C25_PendingStateOnEagain ==
    [][(SendToReturns /\ LastCall'.End = "EAGAIN") =>
          LET c == LastCall'.Context IN
          /\ SendContexts'[c].Pending
          /\ SendContexts'[c].CurrentIndex
                 = SendContexts[c].CurrentIndex + LastCall'.Accepted
          /\ \E b \in BindingIds :
                 LET list == Bindings'[b].PendingSendContextHead IN
                 /\ Bindings'[b].Alloc = "live"
                 /\ list # <<>>
                 /\ list[Len(list)] = c
                 /\ Bindings'[b].SendWaiting]_vars

\* The types of the records that carry the local address of a datagram.
PktInfoTypes == {"IPV6_PKTINFO", "IP_PKTINFO"}

\* The positions of the packet-info records in the control buffer of socket
\* context sc.
PktInfoRecords(sc) ==
    {i \in 1..Len(Bindings[sc].RecvMsgControl) :
        Bindings[sc].RecvMsgControl[i] \in PktInfoTypes}

\* The worker passes from recvmsg into RecvHandler.
RecvHandlerCalled == WorkerPc = "recvd" /\ WorkerPc' = "callback"

\* C26: a datagram received without an IPV6_PKTINFO or IP_PKTINFO record is
\* never passed to RecvHandler: its receive completion terminates the process
\* by a failed assertion; and whenever RecvHandler is called the datagram's
\* local address was filled from exactly one such record, the first of the
\* control buffer.
C26_MissingPktInfoFatal ==
    /\ [][(WorkerPc = "recvd" /\ PktInfoRecords(CurrentSc) = {}) =>
              /\ WorkerPc' = "recvd"
              /\ UserHeld' \subseteq UserHeld
              /\ Bindings'[CurrentSc].CurrentRecvBlock
                     # Bindings[CurrentSc].CurrentRecvBlock => Process' = "assert"]_vars
    /\ [][RecvHandlerCalled =>
              LET sc == CurrentSc
                  records == PktInfoRecords(sc)
                  datagram == RecvBlocks'[Bindings[sc].CurrentRecvBlock]
              IN /\ Cardinality(records) = 1
                 /\ datagram.LocalAddress.family =
                        (IF Bindings[sc].RecvMsgControl[Min(records)] = "IPV6_PKTINFO"
                         THEN "AF_INET6" ELSE "AF_INET")]_vars

\* A datagram arrived without packet info and its receive completion has
\* terminated the process before the upcall.
C26_Witness ==
    /\ Process = "assert"
    /\ WorkerPc = "recvd"
    /\ PktInfoRecords(CurrentSc) = {}
    /\ Bindings[CurrentSc].CurrentRecvBlock = NULL
    /\ UserHeld = {}

\* Socket context sc is registered on the kqueue: the read knote of its
\* binding's open socket carries it.
Registered(sc) ==
    /\ Bindings[sc].Alloc = "live"
    /\ Bindings[sc].SocketFd # INVALID_SOCKET_FD
    /\ Sockets[Bindings[sc].SocketFd].open
    /\ Sockets[Bindings[sc].SocketFd].knote = sc

\* C27: while the process runs, a registered socket context has a receive
\* block armed, with the receive header pointing into it, whenever the worker
\* is not inside its
\* receive completion, so the block is there when recvmsg is issued and when
\* the completion starts; after the upcall the worker does not go on to the
\* next event before a block newly taken from the pool is armed and wired
\* into the receive header, and when that allocation fails the process is
\* terminated with the worker still in the completion.
C27_AlwaysArmed ==
    /\ [](Running =>
             \A sc \in BindingIds :
                 (Registered(sc) /\ ~(WorkerPc = "callback" /\ CurrentSc = sc)) =>
                     /\ Bindings[sc].CurrentRecvBlock # NULL
                     /\ Bindings[sc].RecvMsgHdr = Bindings[sc].CurrentRecvBlock)
    /\ []((Running /\ WorkerPc = "recvd") =>
             Bindings[CurrentSc].CurrentRecvBlock # NULL)
    /\ [][WorkerPc = "callback" =>
              LET armed == Bindings'[CurrentSc].CurrentRecvBlock IN
              IF WorkerPc' = "callback" /\ evList' = evList
              THEN armed = NULL
              ELSE /\ armed # NULL
                   /\ armed \notin RecvBlocksAllocated
                   /\ armed \in RecvBlocksAllocated'
                   /\ Bindings'[CurrentSc].RecvMsgHdr = armed
                   /\ Process' = "running"]_vars
    /\ [][(WorkerPc = "callback" /\ Process' = "assert") =>
              (WorkerPc' = "callback" /\ evList' = evList
                  /\ RecvBlocksAllocated' = RecvBlocksAllocated)]_vars

\* The worker has delivered a datagram and re-armed the socket context with
\* another block before going on.
C27_Witness ==
    /\ WorkerPc = "event"
    /\ LastCall.Op = "RecvHandler"
    /\ Registered(LastCall.Binding)
    /\ LastCall.Datagram \in UserHeld
    /\ Bindings[LastCall.Binding].CurrentRecvBlock \notin {NULL, LastCall.Datagram}

\* The recvmsg the worker issued for the event at the head of the batch has
\* returned -1.
RecvmsgFailed ==
    /\ WorkerPc = "event"
    /\ evList # <<>>
    /\ Head(evList).data # 0
    /\ RecvRet' = 0 - 1
    /\ (RecvRet # 0 - 1 \/ evList' # evList \/ WorkerPc' # WorkerPc)

\* C28: when recvmsg returns -1 the event is dropped and nothing else
\* happens: RecvHandler is not called, the socket context keeps its armed
\* block, no block is allocated or freed, nothing is reported, and the worker
\* goes on to the next event of the batch.
C28_FailedRecvDropsEvent ==
    [][RecvmsgFailed =>
          /\ WorkerPc' = "event"
          /\ evList' = Tail(evList)
          /\ Bindings' = Bindings
          /\ UNCHANGED blockVars
          /\ Sockets' = Sockets
          /\ LastCall' = LastCall
          /\ Process' = "running"]_vars

\* A recvmsg on the open socket of a live binding has failed: the datagram is
\* still queued, the block still armed and no upcall was made.
C28_Witness ==
    /\ RecvRet = 0 - 1
    /\ WorkerPc = "event"
    /\ Running
    /\ LastCall.Op = "BindingCreate"
    /\ \E b \in LiveBindings :
           /\ Sockets[Bindings[b].SocketFd].queue # <<>>
           /\ Bindings[b].CurrentRecvBlock # NULL
           /\ UserHeld = {}

\* C29: at every call of RecvHandler the datagram's BufferLength is the byte
\* count the recvmsg returned, its PartitionIndex is the index of the worker
\* (0), its local port is the binding's local port, its remote address is
\* what the kernel wrote through msg_name (the source address of the datagram
\* taken from the socket, written into the block that is then delivered),
\* its Next is NULL, and the arguments of the call are the binding the socket
\* context belongs to and that binding's client context.
C29_DatagramStamping ==
    /\ [][(WorkerPc = "event" /\ WorkerPc' = "recvd") =>
              LET sc == CurrentSc
                  fd == Bindings[sc].SocketFd
              IN RecvBlocks'[Bindings[sc].CurrentRecvBlock].RemoteAddress
                     = SenderOf(Head(Sockets[fd].queue).id)]_vars
    /\ [][RecvHandlerCalled =>
              LET sc == CurrentSc
                  blk == Bindings[sc].CurrentRecvBlock
                  datagram == RecvBlocks'[blk]
              IN /\ LastCall'.Op = "RecvHandler"
                 /\ LastCall'.Binding = sc
                 /\ LastCall'.ClientContext = RecvCallbackContext(sc)
                 /\ LastCall'.Datagram = blk
                 /\ datagram.BufferLength = RecvRet
                 /\ datagram.PartitionIndex = 0
                 /\ datagram.LocalAddress.port = Bindings[sc].LocalAddress.port
                 /\ datagram.RemoteAddress = RecvBlocks[blk].RemoteAddress
                 /\ datagram.Next = NULL]_vars

\* The second datagram, of 1200 bytes, is being delivered to RecvHandler.
C29_Witness ==
    /\ WorkerPc = "callback"
    /\ LastCall.Op = "RecvHandler"
    /\ RecvBlocks[LastCall.Datagram].BufferLength = 1200
    /\ RecvBlocks[LastCall.Datagram].RemoteAddress = SenderOf(2)
    /\ RecvBlocks[LastCall.Datagram].LocalAddress
           = Bindings[LastCall.Binding].LocalAddress

\* The steps QuicDataPathWorkerThread takes (lines 451-484, with
\* QuicSocketContextRecvComplete); every other step runs on the thread of the
\* caller of an API function, or in the kernel.
WorkerThreadStep ==
    \/ WorkerLoopCheck
    \/ WorkerKevent
    \/ WorkerKeventFail
    \/ WorkerBatchDone
    \/ WorkerSkipEmpty
    \/ \E control \in ControlMessages : WorkerRecvmsg(control)
    \/ WorkerRecvmsgFail
    \/ WorkerFault
    \/ WorkerRecvComplete
    \/ \E ok \in BOOLEAN : WorkerRearm(ok)

\* The step takes an element out of RecvBlockPool, SendContextPool or
\* SendBufferPool of ProcContexts[0].
PoolAllocStep ==
    \/ RecvBlocksAllocated' \ RecvBlocksAllocated # {}
    \/ \E c \in SendContextIds :
           SendContexts[c].Alloc = "free" /\ SendContexts'[c].Alloc # "free"
    \/ SendBuffersAllocated' > SendBuffersAllocated

\* C31: every allocation from a pool of the worker is made by a step of the
\* worker thread; steps of other threads only give elements back.
C31_PoolAllocAffinity == [][PoolAllocStep => WorkerThreadStep]_vars

\* The fields of socket context sc the claim names: CurrentRecvBlock, the
\* receive header with its control buffer, the list of pending sends and
\* SendWaiting (lines 131-160).
SocketContextFields(sc) ==
    <<Bindings[sc].CurrentRecvBlock, Bindings[sc].RecvMsgHdr,
      Bindings[sc].RecvMsgControl, Bindings[sc].PendingSendContextHead,
      Bindings[sc].SendWaiting>>

\* The buffers a send context is given in AffinitySpec.
AffinityBuffers == 2

\* The connected binding is used for sending and deleted by the upper layer
\* while datagrams arrive and the worker handles them.
AffinityNext ==
    \/ \E b \in BindingIds : BindingDeleteClose(b)
    \/ \E b \in BindingIds : BindingDeleteWait(b)
    \/ \E b \in BindingIds : BindingDeleteFree(b)
    \/ \E b \in BindingIds : QuicDataPathBindingAllocSendContext(b, TRUE)
    \/ \E c \in SendContextIds :
           /\ SendContexts[c].BufferCount < AffinityBuffers
           /\ QuicDataPathBindingAllocSendDatagram(c, TRUE)
    \/ \E b \in BindingIds, c \in SendContextIds,
          out \in [accepted : 0..MaxSendBatchSize, end : {"done", "EAGAIN", "errno"}] :
           QuicDataPathBindingSendTo(b, c, out)
    \/ \E fd \in FdIds, len \in DatagramLengths : Arrive(fd, len)
    \/ WorkerLoopCheck
    \/ WorkerKevent
    \/ WorkerBatchDone
    \/ WorkerSkipEmpty
    \/ \E control \in ControlMessages : WorkerRecvmsg(control)
    \/ WorkerRecvmsgFail
    \/ WorkerFault
    \/ WorkerRecvComplete
    \/ \E ok \in BOOLEAN : WorkerRearm(ok)

AffinitySpec == SendInit /\ [][AffinityNext]_vars

\* Socket context sc has been registered on the kqueue: the binding object is
\* stored only by the call that ran EV_ADD on its socket (line 1078).
HasBeenRegistered(sc) == Bindings[sc].Alloc # "none"

C33_CurrentIndexTracksAccepted ==
    /\ [](\A c \in SendContextIds :
             /\ SendContexts[c].CurrentIndex \in 0..SendContexts[c].BufferCount
             /\ SendContexts[c].Alloc = "user" => SendContexts[c].CurrentIndex = 0
             /\ SendContexts[c].Alloc = "deferred" =>
                    SendContexts[c].CurrentIndex < SendContexts[c].BufferCount)
    /\ [][\A c \in SendContextIds :
              SendContexts'[c].CurrentIndex # SendContexts[c].CurrentIndex =>
                  /\ SendToReturns
                  /\ LastCall'.Context = c
                  /\ LastCall'.Accepted > 0
                  /\ SendContexts'[c].CurrentIndex =
                         SendContexts[c].CurrentIndex + LastCall'.Accepted]_vars
    /\ [][(SendToReturns /\ LastCall'.End = "EAGAIN") =>
              LET c == LastCall'.Context IN
              /\ SendContexts'[c].CurrentIndex - SendContexts[c].CurrentIndex =
                     LastCall'.Accepted
              /\ LastCall'.Accepted > 0 =>
                     LastAccepted' = <<LastCall'.Ticket,
                                       SendContexts'[c].CurrentIndex - 1>>]_vars

\* A send of three buffers or more stopped with EAGAIN after the kernel had
\* accepted two of them.
C33_Witness ==
    /\ LastCall.Op = "SendTo"
    /\ LastCall.End = "EAGAIN"
    /\ LastCall.Accepted = 2
    /\ SendContexts[LastCall.Context].Alloc = "deferred"
    /\ SendContexts[LastCall.Context].CurrentIndex = 2
    /\ SendContexts[LastCall.Context].BufferCount > 2

\* C34: when QuicDataPathBindingCreate returns a failure status, *NewBinding
\* holds no binding, or one that is still allocated; the binding objects a
\* failed call allocated are freed before it returns, so none is allocated
\* that was not before.
C34_NoDanglingOutputHandle ==
    [][BindingCreateFails =>
          \/ LastCall'.NewBinding = NULL
          \/ /\ Bindings'[LastCall'.NewBinding].Alloc = "live"
             /\ Bindings[LastCall'.NewBinding].Alloc = "live"]_vars

\* The descriptors socket() has returned and close() has not been called on.
OpenDescriptors == {fd \in FdIds : Sockets[fd].open}

\* C35: in every quiescent state the open socket descriptors are those stored
\* in the socket contexts of the live bindings, one for each of the ProcCount
\* socket contexts of a binding; with no live binding none is open.
C35_DescriptorAccounting ==
    Quiescent =>
        /\ OpenDescriptors = {Bindings[b].SocketFd : b \in LiveBindings}
        /\ Cardinality(OpenDescriptors) = ProcCount * Cardinality(LiveBindings)

\* sizeof(RecvBlock->Buffer) (line 54): MAX_UDP_PAYLOAD_LENGTH, which the
\* platform headers define as QUIC_MAX_MTU less the IPv4 and UDP headers.
MAX_UDP_PAYLOAD_LENGTH == 1472

\* Payload lengths of the datagrams of ReceiveSpec: empty, ordinary, filling
\* the receive buffer exactly, one byte longer, and the longest UDP payload.
ReceiveLengths == {0, 1200, 1472, 1473, 65507}

\* Datagrams of any length arrive on the connected binding; the worker
\* receives them and the upper layer returns the blocks.
ReceiveNext ==
    \/ \E fd \in FdIds, len \in ReceiveLengths : Arrive(fd, len)
    \/ WorkerLoopCheck
    \/ WorkerKevent
    \/ WorkerBatchDone
    \/ WorkerSkipEmpty
    \/ \E control \in ControlMessages : WorkerRecvmsg(control)
    \/ WorkerRecvComplete
    \/ \E ok \in BOOLEAN : WorkerRearm(ok)
    \/ \E chain \in Chains(RecvBlockIds) :
           QuicDataPathBindingReturnRecvDatagrams(chain)

ReceiveSpec == SendInit /\ [][ReceiveNext]_vars

\* QUIC_DBG_ASSERT(BytesTransferred <= RecvPacket->BufferLength) (line 418).
ReceiveLengthAsserted(BytesTransferred, block) ==
    BytesTransferred <= block.BufferLength

====
